---- MODULE Spec2Model ----
(***************************************************************************)
(* A model of the RSMISC virtual machine: the instruction decoder          *)
(* (src/instruction.rs, src/operand.rs) and the execution engine           *)
(* (src/rsmisc.rs).                                                        *)
(*                                                                         *)
(* Words wider than TLC's integers (the 32-bit fetch, the 48-bit           *)
(* instruction word) are kept as tuples of bytes, most significant byte    *)
(* first: <<b0, b1, b2, b3>> stands for b0<<24 | b1<<16 | b2<<8 | b3, so   *)
(* "(w >> 8k) & 0xff" is the selection of one byte of the tuple.           *)
(*                                                                         *)
(* A Rust panic (index out of bounds, division by zero) aborts the         *)
(* process; it is the result "Panic", after which nothing runs.            *)
(***************************************************************************)
EXTENDS Integers, Sequences, FiniteSets, TLC

VARIABLES
    memory,      \* Rsmisc.memory, kept sparse: the cells that are not 0
    ip,          \* Rsmisc.ip
    registers,   \* Rsmisc.registers, <<R1, R2, R3, R4>>
    stack,       \* Rsmisc.stack (evaluation stack), top is the last element
    call_stack,  \* Rsmisc.call_stack, top is the last element
    console,     \* what SWI has printed so far
    result,      \* what the last execute_next returned ("None" before any)
    hist,        \* one entry per execute_next call so far: the machine it was called on
    tword,       \* decoder input: the 48-bit word as six bytes
    decoded      \* decoder output for tword (op_code "None" before any)

vars == <<memory, ip, registers, stack, call_stack, console, result, hist, tword, decoded>>

-----------------------------------------------------------------------------
(* Bounds of the model *)

\* number of instruction slots of the program image given to Rsmisc::new
MaxProgLen == 3
\* number of execute_next calls
MaxSteps == 4
\* the opcode bytes given to the decoder are 0 .. MaxOpcodeByte, and 0xFF
MaxOpcodeByte == 13

-----------------------------------------------------------------------------
(* Program constants *)

MEMORY_SIZE == 65535
WORD == 65536
BYTE == 256
INSTRUCTION_SIZE == 4
\* bytes of the 48-bit instruction form of src/instruction.rs
TWORD_SIZE == 6
OPERAND_COUNT == 7

U16(x) == x % WORD

-----------------------------------------------------------------------------
(* src/operand.rs *)

Operands == <<"R1", "R2", "R3", "R4", "IP", "CT", "MA">>

OperandOfIndex(i) ==
    CASE i = 0 -> "R1"
      [] i = 1 -> "R2"
      [] i = 2 -> "R3"
      [] i = 3 -> "R4"
      [] i = 4 -> "IP"
      [] i = 5 -> "CT"
      [] i = 6 -> "MA"
      [] OTHER -> "R1"

\* mutant of get_combination_target: the remainder is taken, not the quotient
get_combination_target_by_remainder(operand_combination) ==
    OperandOfIndex(operand_combination % OPERAND_COUNT)

get_combination_target(operand_combination) ==
    OperandOfIndex(operand_combination \div OPERAND_COUNT)

get_combination_source(operand_combination) ==
    OperandOfIndex(operand_combination % OPERAND_COUNT)

-----------------------------------------------------------------------------
(* src/instruction.rs *)

OpcodeOf(op) ==
    CASE op = 0 -> "HALT"
      [] op = 1 -> "ADD"
      [] op = 2 -> "SUB"
      [] op = 3 -> "MUL"
      [] op = 4 -> "DIV"
      [] op = 5 -> "MOV"
      [] op = 6 -> "LD"
      [] op = 7 -> "ULD"
      [] op = 8 -> "BZ"
      [] op = 9 -> "SWI"
      [] op = 10 -> "CALL"
      [] op = 11 -> "RET"
      [] OTHER -> "NOP"

\* ((w >> lo_shift) & 0xff) | ((w >> hi_shift) & 0xff) << 8 : the byte nearer
\* the opcode is the LOW byte of the immediate.
\* mutant of ImmOf: the byte nearer the opcode is the high byte
ImmOf_high_byte_first(first, second) == first * BYTE + second

ImmOf(first, second) == first + second * BYTE

\* Instruction::from(tword: u64), tword = <<b0, .., b5>>
Decode(w) ==
    [ op_code    |-> OpcodeOf(w[1]),
      target     |-> get_combination_target(w[2]),
      source     |-> get_combination_source(w[2]),
      target_imm |-> ImmOf(w[3], w[4]),
      source_imm |-> ImmOf(w[5], w[6]) ]

\* The instruction the engine dispatches on.  src/rsmisc.rs fetches a 32-bit
\* word with load_32, advances ip by 4 and has its handlers read a single
\* immediate, instruction.imm, while src/instruction.rs declares the 48-bit
\* form with two immediates.  The engine is modelled as rsmisc.rs runs it: four
\* bytes per instruction, the opcode and operand bytes decoded as
\* instruction.rs decodes them, and one immediate, low byte first.
DecodeDword(d) ==
    [ op_code |-> OpcodeOf(d[1]),
      target  |-> get_combination_target(d[2]),
      source  |-> get_combination_source(d[2]),
      imm     |-> ImmOf(d[3], d[4]) ]

-----------------------------------------------------------------------------
(* src/rsmisc.rs: memory *)

MemGet(mem, a) == IF a \in DOMAIN mem THEN mem[a] ELSE 0

MemSet(mem, a, b) ==
    IF b = 0
    THEN [x \in DOMAIN mem \ {a} |-> mem[x]]
    ELSE [x \in DOMAIN mem \cup {a} |-> IF x = a THEN b ELSE mem[x]]

\* memory[(address + k) as usize] for k < n panics when an index reaches
\* MEMORY_SIZE (index out of bounds) or address + k overflows u16.
OutOfRange(address, n) == address + n - 1 >= MEMORY_SIZE

Ok(v) == [ok |-> TRUE, v |-> v]
Panicked == [ok |-> FALSE, v |-> 0]

load_32(mem, address) ==
    IF OutOfRange(address, 4) THEN Panicked
    ELSE Ok(<<MemGet(mem, address), MemGet(mem, address + 1),
              MemGet(mem, address + 2), MemGet(mem, address + 3)>>)

load_16(mem, address) ==
    IF OutOfRange(address, 2) THEN Panicked
    ELSE Ok(MemGet(mem, address + 1) + MemGet(mem, address) * BYTE)

\* store_16 writes the high byte first; the second write may panic after the
\* first one has been done.
store_16(mem, address, value) ==
    IF OutOfRange(address, 1) THEN [ok |-> FALSE, v |-> mem]
    ELSE IF OutOfRange(address, 2)
         THEN [ok |-> FALSE, v |-> MemSet(mem, address, value \div BYTE)]
         ELSE Ok(MemSet(MemSet(mem, address, value \div BYTE), address + 1, value % BYTE))

-----------------------------------------------------------------------------
(* src/rsmisc.rs: the machine.  A machine is the record of the fields of    *)
(* Rsmisc, the console and the value the running execute_next returns.      *)

Machine(mem, i, regs, st, cs, con, res) ==
    [ memory |-> mem, ip |-> i, registers |-> regs, stack |-> st,
      call_stack |-> cs, console |-> con, result |-> res ]

\* Rsmisc::new(program): program is a sequence of bytes
new(program) ==
    Machine([a \in {k \in 0 .. Len(program) - 1 : program[k + 1] # 0} |-> program[a + 1]],
            0, <<0, 0, 0, 0>>, <<>>, <<>>, <<>>, "None")

Return(m, res) == [m EXCEPT !.result = res]
Panic(m) == [m EXCEPT !.result = "Panic"]

\* Vec::pop on a non-empty vector
Pop(s) == SubSeq(s, 1, Len(s) - 1)
Top(s) == s[Len(s)]

RegisterIndex(operand) ==
    CASE operand = "R1" -> 1
      [] operand = "R2" -> 2
      [] operand = "R3" -> 3
      [] operand = "R4" -> 4

IsRegister(operand) == operand \in {"R1", "R2", "R3", "R4"}

get_operand_value(m, instruction, operand) ==
    CASE IsRegister(operand) -> Ok(m.registers[RegisterIndex(operand)])
      [] operand = "IP" -> Ok(m.ip)
      [] operand = "CT" -> Ok(instruction.imm)
      [] operand = "MA" -> load_16(m.memory, instruction.imm)

halt(m, instruction) == Return(m, "Stop")

\* mutant of wrapping_add: the sum saturates at 0xFFFF
saturating_add(target, source) ==
    IF target + source >= WORD THEN WORD - 1 ELSE target + source

wrapping_add(target, source) == U16(target + source)
wrapping_sub(target, source) == U16(target - source + WORD)
\* the product is taken bytewise so that no intermediate value exceeds 32 bits
wrapping_mul(target, source) ==
    U16((target * (source % BYTE)) + (((target * (source \div BYTE)) % BYTE) * BYTE))

\* u16::wrapping_div panics when the divisor is 0
wrapping_div(target, source) ==
    IF source = 0 THEN Panicked ELSE Ok(target \div source)

\* mutant of Push: the pushed value is also kept in R1
Push_keeps_accumulator(m, value) ==
    [m EXCEPT !.stack = Append(@, value), !.registers[1] = value]

Push(m, value) == [m EXCEPT !.stack = Append(@, value)]

arithmetic_operation(m, instruction, operation) ==
    LET target_result == get_operand_value(m, instruction, instruction.target)
        source_result == get_operand_value(m, instruction, instruction.source)
        target == target_result.v
        source == source_result.v
    IN  IF ~target_result.ok \/ ~source_result.ok THEN Panic(m)
        ELSE CASE operation = "Add" ->
                    Return(Push(m, wrapping_add(target, source)), "Continue")
               [] operation = "Sub" ->
                    Return(Push(m, wrapping_sub(target, source)), "Continue")
               [] operation = "Mul" ->
                    Return(Push(m, wrapping_mul(target, source)), "Continue")
               [] operation = "Div" ->
                    IF wrapping_div(target, source).ok
                    THEN Return(Push(m, wrapping_div(target, source).v), "Continue")
                    ELSE Panic(m)

add(m, instruction) == arithmetic_operation(m, instruction, "Add")
sub(m, instruction) == arithmetic_operation(m, instruction, "Sub")
mul(m, instruction) == arithmetic_operation(m, instruction, "Mul")
div(m, instruction) == arithmetic_operation(m, instruction, "Div")

\* the store of MOV and ULD into R1..R4 or IP
StoreTo(m, operand, value) ==
    IF operand = "IP" THEN [m EXCEPT !.ip = value]
    ELSE [m EXCEPT !.registers[RegisterIndex(operand)] = value]

\* mutant of mov: a target that cannot be assigned is skipped without an error
mov_skips_invalid_target(m, instruction) ==
    LET source_value == get_operand_value(m, instruction, instruction.source)
    IN  IF ~source_value.ok THEN Panic(m)
        ELSE IF instruction.target \in {"CT", "MA"}
             THEN Return(m, "Continue")
             ELSE Return(StoreTo(m, instruction.target, source_value.v), "Continue")

mov(m, instruction) ==
    LET source_value == get_operand_value(m, instruction, instruction.source)
    IN  IF ~source_value.ok THEN Panic(m)
        ELSE IF instruction.target \in {"CT", "MA"}
             THEN Return(m, "InvalidMoveTarget")
             ELSE Return(StoreTo(m, instruction.target, source_value.v), "Continue")

\* mutant of ld: the immediate is pushed, whatever the target operand is
ld_pushes_immediate(m, instruction) ==
    Return(Push(m, instruction.imm), "Continue")

ld(m, instruction) ==
    LET target_value == get_operand_value(m, instruction, instruction.target)
    IN  IF ~target_value.ok THEN Panic(m)
        ELSE Return(Push(m, target_value.v), "Continue")

\* mutant of uld: an empty stack unloads 0 (pop().unwrap_or(0)) instead of failing
uld_unloads_zero_when_empty(m, instruction) ==
    LET value == IF m.stack = <<>> THEN 0 ELSE Top(m.stack)
        popped == IF m.stack = <<>> THEN m ELSE [m EXCEPT !.stack = Pop(@)]
        stored == store_16(m.memory, instruction.imm, value)
    IN  CASE instruction.target = "CT" -> Return(popped, "InvalidUnloadTarget")
          [] instruction.target = "MA" ->
               IF stored.ok
               THEN Return([popped EXCEPT !.memory = stored.v], "Continue")
               ELSE Panic([popped EXCEPT !.memory = stored.v])
          [] OTHER -> Return(StoreTo(popped, instruction.target, value), "Continue")

\* mutant of uld: the target is validated before the value is popped
uld_checks_target_first(m, instruction) ==
    IF m.stack = <<>> THEN Return(m, "StackUnderflow")
    ELSE LET value == Top(m.stack)
             popped == [m EXCEPT !.stack = Pop(@)]
             stored == store_16(m.memory, instruction.imm, value)
         IN  CASE instruction.target = "CT" -> Return(m, "InvalidUnloadTarget")
               [] instruction.target = "MA" ->
                    IF stored.ok
                    THEN Return([popped EXCEPT !.memory = stored.v], "Continue")
                    ELSE Panic([popped EXCEPT !.memory = stored.v])
               [] OTHER -> Return(StoreTo(popped, instruction.target, value), "Continue")

uld(m, instruction) ==
    IF m.stack = <<>> THEN Return(m, "StackUnderflow")
    ELSE LET value == Top(m.stack)
             popped == [m EXCEPT !.stack = Pop(@)]
             stored == store_16(m.memory, instruction.imm, value)
         IN  CASE instruction.target = "CT" -> Return(popped, "InvalidUnloadTarget")
               [] instruction.target = "MA" ->
                    IF stored.ok
                    THEN Return([popped EXCEPT !.memory = stored.v], "Continue")
                    ELSE Panic([popped EXCEPT !.memory = stored.v])
               [] OTHER -> Return(StoreTo(popped, instruction.target, value), "Continue")

\* mutant of bz: the branch is taken when the target is not zero
bz_branches_on_nonzero(m, instruction) ==
    LET target_value == get_operand_value(m, instruction, instruction.target)
        source_value == get_operand_value(m, instruction, instruction.source)
    IN  IF ~target_value.ok \/ ~source_value.ok THEN Panic(m)
        ELSE IF target_value.v # 0
             THEN Return([m EXCEPT !.ip = source_value.v], "Continue")
             ELSE Return(m, "Continue")

bz(m, instruction) ==
    LET target_value == get_operand_value(m, instruction, instruction.target)
        source_value == get_operand_value(m, instruction, instruction.source)
    IN  IF ~target_value.ok \/ ~source_value.ok THEN Panic(m)
        ELSE IF target_value.v = 0
             THEN Return([m EXCEPT !.ip = source_value.v], "Continue")
             ELSE Return(m, "Continue")

\* char::from_u32: every u16 but the surrogates 0xD800..0xDFFF is a scalar value
SURROGATE_FIRST == 55296
SURROGATE_LAST == 57343
IsScalarValue(c) == ~(SURROGATE_FIRST <= c /\ c <= SURROGATE_LAST)

swi(m, instruction) ==
    IF instruction.imm = 0
    THEN IF IsScalarValue(m.registers[1])
         THEN Return([m EXCEPT !.console = Append(@, <<"char", m.registers[1]>>)], "Continue")
         ELSE Return(m, "Continue")
    ELSE Return(m, "UnimplementedInterrupt")

\* mutant of call: the address of the CALL itself is pushed, not the advanced ip
call_pushes_own_address(m, instruction) ==
    LET target_value == get_operand_value(m, instruction, instruction.target)
    IN  IF ~target_value.ok THEN Panic(m)
        ELSE Return([m EXCEPT !.call_stack = Append(@, m.ip - INSTRUCTION_SIZE),
                              !.ip = target_value.v],
                    "Continue")

\* mutant of call: execution resumes one instruction after the target
call_lands_after_target(m, instruction) ==
    LET target_value == get_operand_value(m, instruction, instruction.target)
    IN  IF ~target_value.ok THEN Panic(m)
        ELSE Return([m EXCEPT !.call_stack = Append(@, m.ip),
                              !.ip = U16(target_value.v + INSTRUCTION_SIZE)],
                    "Continue")

call(m, instruction) ==
    LET target_value == get_operand_value(m, instruction, instruction.target)
    IN  IF ~target_value.ok THEN Panic(m)
        ELSE Return([m EXCEPT !.call_stack = Append(@, m.ip), !.ip = target_value.v],
                    "Continue")

\* mutant of ret: the fetch advance is undone when the call stack is empty
ret_rewinds_when_empty(m, instruction) ==
    IF m.call_stack = <<>>
    THEN Return([m EXCEPT !.ip = m.ip - INSTRUCTION_SIZE], "CallStackEmpty")
    ELSE Return([m EXCEPT !.call_stack = Pop(@), !.ip = Top(m.call_stack)], "Continue")

\* mutant of ret: the return address is taken from the evaluation stack
ret_pops_evaluation_stack(m, instruction) ==
    IF m.stack = <<>> THEN Return(m, "CallStackEmpty")
    ELSE Return([m EXCEPT !.stack = Pop(@), !.ip = Top(m.stack)], "Continue")

ret(m, instruction) ==
    IF m.call_stack = <<>> THEN Return(m, "CallStackEmpty")
    ELSE Return([m EXCEPT !.call_stack = Pop(@), !.ip = Top(m.call_stack)], "Continue")

nop(m, instruction) == Return(m, "Continue")

\* the match of execute_next on instruction.op_code
Dispatch(m, instruction) ==
    CASE instruction.op_code = "HALT" -> halt(m, instruction)
      [] instruction.op_code = "ADD" -> add(m, instruction)
      [] instruction.op_code = "SUB" -> sub(m, instruction)
      [] instruction.op_code = "MUL" -> mul(m, instruction)
      [] instruction.op_code = "DIV" -> div(m, instruction)
      [] instruction.op_code = "MOV" -> mov(m, instruction)
      [] instruction.op_code = "LD" -> ld(m, instruction)
      [] instruction.op_code = "ULD" -> uld(m, instruction)
      [] instruction.op_code = "BZ" -> bz(m, instruction)
      [] instruction.op_code = "SWI" -> swi(m, instruction)
      [] instruction.op_code = "CALL" -> call(m, instruction)
      [] instruction.op_code = "RET" -> ret(m, instruction)
      [] instruction.op_code = "NOP" -> nop(m, instruction)

\* self.ip += 0x4, done before the dispatch; it cannot overflow, since the
\* fetch has succeeded only if ip + 3 < MEMORY_SIZE
Advance(m) == [m EXCEPT !.ip = m.ip + INSTRUCTION_SIZE]

NoInstruction == [op_code |-> "None", target |-> "R1", source |-> "R1", imm |-> 0]

\* the instruction execute_next fetches in m (NoInstruction when load_32 panics)
Fetched(m) ==
    IF load_32(m.memory, m.ip).ok
    THEN DecodeDword(load_32(m.memory, m.ip).v)
    ELSE NoInstruction

execute_next(m) ==
    IF load_32(m.memory, m.ip).ok
    THEN Dispatch(Advance(m), Fetched(m))
    ELSE Panic(m)

-----------------------------------------------------------------------------
(* Program images.  A program is MaxProgLen instruction slots, each taken    *)
(* from Menu; the rest of memory is zero (which decodes as HALT R1 R1).      *)

\* the four bytes of an instruction word of the engine, as DecodeDword reads them
Asm(op, target, source, imm) ==
    <<op, target * OPERAND_COUNT + source, imm % BYTE, imm \div BYTE>>

Menu ==
    { Asm(0, 0, 0, 0),          \* HALT
      Asm(255, 0, 0, 0),        \* unknown opcode: NOP
      Asm(1, 1, 5, 1),          \* ADD R2 #1
      Asm(1, 5, 5, 32768),      \* ADD #8000 #8000
      Asm(2, 0, 5, 1),          \* SUB R1 #1
      Asm(3, 0, 5, 4096),       \* MUL R1 #1000
      Asm(4, 1, 0, 0),          \* DIV R2 R1
      Asm(5, 0, 5, 42),         \* MOV R1 #2A
      Asm(5, 4, 5, 65532),      \* MOV IP #FFFC
      Asm(5, 5, 0, 0),          \* MOV #0 R1
      Asm(6, 0, 0, 0),          \* LD R1
      Asm(6, 6, 0, 256),        \* LD 100
      Asm(7, 1, 0, 0),          \* ULD R2
      Asm(7, 5, 0, 0),          \* ULD #0
      Asm(7, 6, 0, 256),        \* ULD 100
      Asm(7, 6, 0, 65534),      \* ULD FFFE
      Asm(8, 0, 5, 8),          \* BZ R1 #8
      Asm(9, 5, 0, 0),          \* SWI #0
      Asm(9, 5, 0, 1),          \* SWI #1
      Asm(10, 5, 0, 8),         \* CALL #8
      Asm(11, 0, 0, 0) }        \* RET

RECURSIVE Flatten(_)
Flatten(words) ==
    IF words = <<>> THEN <<>> ELSE Head(words) \o Flatten(Tail(words))

Programs == { Flatten(p) : p \in [1 .. MaxProgLen -> Menu] }

-----------------------------------------------------------------------------
(* The engine as a state machine: one action per handler execute_next        *)
(* dispatches to, and one for the fetch that panics.                         *)

Current == Machine(memory, ip, registers, stack, call_stack, console, result)

Becomes(m) ==
    /\ memory' = m.memory
    /\ ip' = m.ip
    /\ registers' = m.registers
    /\ stack' = m.stack
    /\ call_stack' = m.call_stack
    /\ console' = m.console
    /\ result' = m.result

NoWord == <<0, 0, 0, 0, 0, 0>>
NotDecoded ==
    [op_code |-> "None", target |-> "R1", source |-> "R1", target_imm |-> 0, source_imm |-> 0]

\* the machine is m
StartsAs(m) ==
    /\ memory = m.memory
    /\ ip = m.ip
    /\ registers = m.registers
    /\ stack = m.stack
    /\ call_stack = m.call_stack
    /\ console = m.console
    /\ result = m.result

Init ==
    /\ \E program \in Programs : StartsAs(new(program))
    /\ hist = <<>>
    /\ tword = NoWord
    /\ decoded = NotDecoded

\* execute_next may be called as long as the process has not panicked
Callable ==
    /\ result # "Panic"
    /\ Len(hist) < MaxSteps

\* the opcode execute_next will match on, Fetched(Current).op_code ("None" when
\* the fetch panics)
FetchedOpcode ==
    IF OutOfRange(ip, INSTRUCTION_SIZE) THEN "None" ELSE OpcodeOf(MemGet(memory, ip))

\* one call of execute_next on the current machine
Call ==
    /\ Becomes(execute_next(Current))
    /\ hist' = Append(hist, Current)
    /\ UNCHANGED <<tword, decoded>>

\* load_32 panics at the fetch
FetchPanics ==
    /\ Callable
    /\ FetchedOpcode = "None"
    /\ Call

ExecuteHalt ==
    /\ Callable
    /\ FetchedOpcode = "HALT"
    /\ Call

ExecuteAdd ==
    /\ Callable
    /\ FetchedOpcode = "ADD"
    /\ Call

ExecuteSub ==
    /\ Callable
    /\ FetchedOpcode = "SUB"
    /\ Call

ExecuteMul ==
    /\ Callable
    /\ FetchedOpcode = "MUL"
    /\ Call

ExecuteDiv ==
    /\ Callable
    /\ FetchedOpcode = "DIV"
    /\ Call

ExecuteMov ==
    /\ Callable
    /\ FetchedOpcode = "MOV"
    /\ Call

ExecuteLd ==
    /\ Callable
    /\ FetchedOpcode = "LD"
    /\ Call

ExecuteUld ==
    /\ Callable
    /\ FetchedOpcode = "ULD"
    /\ Call

ExecuteBz ==
    /\ Callable
    /\ FetchedOpcode = "BZ"
    /\ Call

ExecuteSwi ==
    /\ Callable
    /\ FetchedOpcode = "SWI"
    /\ Call

ExecuteCall ==
    /\ Callable
    /\ FetchedOpcode = "CALL"
    /\ Call

ExecuteRet ==
    /\ Callable
    /\ FetchedOpcode = "RET"
    /\ Call

ExecuteNop ==
    /\ Callable
    /\ FetchedOpcode = "NOP"
    /\ Call

Next ==
    \/ FetchPanics
    \/ ExecuteHalt
    \/ ExecuteAdd
    \/ ExecuteSub
    \/ ExecuteMul
    \/ ExecuteDiv
    \/ ExecuteMov
    \/ ExecuteLd
    \/ ExecuteUld
    \/ ExecuteBz
    \/ ExecuteSwi
    \/ ExecuteCall
    \/ ExecuteRet
    \/ ExecuteNop

Spec == Init /\ [][Next]_vars

-----------------------------------------------------------------------------
(* The decoder as a state machine: Instruction::from applied to a word.      *)

OpcodeBytes == (0 .. MaxOpcodeByte) \cup {255}
CombinationBytes == {0, 8, 33, 48, 49, 255}
ImmediateBytes == {0, 18, 255}

Words ==
    { <<b0, b1, b2, b3, b4, b5>> :
        b0 \in OpcodeBytes, b1 \in CombinationBytes,
        b2 \in ImmediateBytes, b3 \in ImmediateBytes,
        b4 \in ImmediateBytes, b5 \in ImmediateBytes }

InitDecode ==
    /\ StartsAs(new(<<>>))
    /\ hist = <<>>
    /\ tword \in Words
    /\ decoded = NotDecoded

\* Instruction::from(tword)
DecodeWord ==
    /\ decoded = NotDecoded
    /\ decoded' = Decode(tword)
    /\ UNCHANGED <<memory, ip, registers, stack, call_stack, console, result, hist, tword>>

NextDecode == DecodeWord

SpecDecode == InitDecode /\ [][NextDecode]_vars

\* Re-encoding, the inverse the round trip is stated with: the opcode's byte,
\* target * 7 + source, and each immediate in the byte order the decoder
\* reads it.  NOP, which has no byte of its own, is given NOP_BYTE.
NOP_BYTE == 12

OpcodeNames ==
    <<"HALT", "ADD", "SUB", "MUL", "DIV", "MOV", "LD", "ULD", "BZ", "SWI", "CALL", "RET">>

OpcodeByte(op_code) ==
    IF op_code = "NOP" THEN NOP_BYTE
    ELSE CHOOSE b \in 0 .. Len(OpcodeNames) - 1 : OpcodeNames[b + 1] = op_code

OperandIndex(operand) == CHOOSE i \in 0 .. Len(Operands) - 1 : Operands[i + 1] = operand

Encode(instruction) ==
    << OpcodeByte(instruction.op_code),
       OperandIndex(instruction.target) * OPERAND_COUNT + OperandIndex(instruction.source),
       instruction.target_imm % BYTE, instruction.target_imm \div BYTE,
       instruction.source_imm % BYTE, instruction.source_imm \div BYTE >>

-----------------------------------------------------------------------------
(* The calls made so far.  Call k was made on the machine Before(k), on the  *)
(* instruction Instr(k), and left the machine After(k).                      *)

Steps == 1 .. Len(hist)

\* the call that began the last n calls.  Every call is among the last calls
\* of the state it led to, so an invariant about Recent(n) is about every
\* run of n consecutive calls.
Recent(n) == IF Len(hist) >= n THEN {Len(hist) - n + 1} ELSE {}
Before(k) == hist[k]
After(k) == IF k < Len(hist) THEN hist[k + 1] ELSE Current
Instr(k) == Fetched(hist[k])

\* Instr(k).op_code
Opcode(k) ==
    IF OutOfRange(hist[k].ip, INSTRUCTION_SIZE) THEN "None"
    ELSE OpcodeOf(MemGet(hist[k].memory, hist[k].ip))

\* the operand values the handler of call k resolved (it runs on the advanced machine)
TargetValue(k) == get_operand_value(Advance(Before(k)), Instr(k), Instr(k).target)
SourceValue(k) == get_operand_value(Advance(Before(k)), Instr(k), Instr(k).source)

\* call k dispatched opcode op and its operands resolved without a panic
Ran(k, op) ==
    /\ Opcode(k) = op
    /\ TargetValue(k).ok
    /\ SourceValue(k).ok

SameRegisters(k) == After(k).registers = Before(k).registers
SameMemory(k) == After(k).memory = Before(k).memory
SameStack(k) == After(k).stack = Before(k).stack
SameCallStack(k) == After(k).call_stack = Before(k).call_stack

-----------------------------------------------------------------------------
(* Claims *)

\* C1: a CALL at address B followed at once by a RET leaves ip at the address
\* of the instruction after the CALL (B + the instruction width of the
\* engine) and the call stack as deep as it was before the CALL.
C1_CallRetSymmetry ==
    \A k \in Recent(2) :
        (/\ Opcode(k) = "CALL"
         /\ After(k).result = "Continue"
         /\ Opcode(k + 1) = "RET")
        => /\ After(k + 1).ip = Before(k).ip + INSTRUCTION_SIZE
           /\ Len(After(k + 1).call_stack) = Len(Before(k).call_stack)

\* C1 witness: a CALL made from an address other than 0 has transferred
\* control to its target, and a RET has run there.
C1_Witness ==
    \E k \in Steps :
        /\ k + 1 \in Steps
        /\ Opcode(k) = "CALL"
        /\ After(k).result = "Continue"
        /\ Opcode(k + 1) = "RET"
        /\ Before(k).ip # 0
        /\ After(k).ip = TargetValue(k).v

\* C2: BZ with target value 0 leaves ip at the source value, BZ with a
\* non-zero target value leaves ip at the next instruction; either way the
\* registers, memory and both stacks are unchanged.
C2_BranchIfZero ==
    \A k \in Recent(1) :
        Ran(k, "BZ")
        => /\ TargetValue(k).v = 0 => After(k).ip = SourceValue(k).v
           /\ TargetValue(k).v # 0 => After(k).ip = Before(k).ip + INSTRUCTION_SIZE
           /\ After(k).result = "Continue"
           /\ SameRegisters(k) /\ SameMemory(k) /\ SameStack(k) /\ SameCallStack(k)

\* C2 witness: a taken branch that is not a fall-through, and then the fetch
\* at the branch address.
C2_Witness ==
    \E k \in Steps :
        /\ Ran(k, "BZ")
        /\ TargetValue(k).v = 0
        /\ SourceValue(k).v # Before(k).ip + INSTRUCTION_SIZE
        /\ k + 1 \in Steps
        /\ Before(k + 1).ip = SourceValue(k).v

\* C2 witness of the other case: a BZ with a non-zero target has fallen through.
C2_WitnessFallThrough ==
    \E k \in Steps :
        /\ Ran(k, "BZ")
        /\ TargetValue(k).v # 0
        /\ SourceValue(k).v # Before(k).ip + INSTRUCTION_SIZE


\* C3: a DIV whose source value is 0 returns DivisionByZero, whatever the
\* target value, does not abort the process and pushes nothing.
C3_DivisionByZeroReported ==
    \A k \in Recent(1) :
        (Ran(k, "DIV") /\ SourceValue(k).v = 0)
        => /\ After(k).result = "DivisionByZero"
           /\ SameStack(k)

\* C4: ULD on an empty evaluation stack returns StackUnderflow for every
\* target operand and leaves the registers, memory and the call stack as
\* they were.
C4_UnloadUnderflow ==
    \A k \in Recent(1) :
        (Opcode(k) = "ULD" /\ Before(k).stack = <<>>)
        => /\ After(k).result = "StackUnderflow"
           /\ SameRegisters(k) /\ SameMemory(k) /\ SameCallStack(k)
           /\ SameStack(k)

\* C4 witness: ULD into a register and ULD into memory have each been run on
\* an empty stack, on a machine whose registers are no longer all zero.
C4_Witness ==
    /\ \E k \in Steps :
          /\ Opcode(k) = "ULD" /\ Before(k).stack = <<>>
          /\ Instr(k).target = "R2"
          /\ Before(k).registers[1] # 0
    /\ \E k \in Steps :
          /\ Opcode(k) = "ULD" /\ Before(k).stack = <<>>
          /\ Instr(k).target = "MA"
          /\ After(k).result = "StackUnderflow"

\* C5 as claimed: RET on an empty call stack returns CallStackEmpty and
\* leaves ip where it was before the call of execute_next.
C5_RetEmptyKeepsIp ==
    \A k \in Recent(1) :
        (Opcode(k) = "RET" /\ Before(k).call_stack = <<>>)
        => /\ After(k).result = "CallStackEmpty"
           /\ After(k).ip = Before(k).ip

\* C5 as amended: RET on an empty call stack returns CallStackEmpty; ip has
\* been advanced past the RET by the fetch and the faulting RET changes it no
\* further; registers, memory and both stacks are unchanged.
C5_RetEmptyAdvancesIp ==
    \A k \in Recent(1) :
        (Opcode(k) = "RET" /\ Before(k).call_stack = <<>>)
        => /\ After(k).result = "CallStackEmpty"
           /\ After(k).ip = Before(k).ip + INSTRUCTION_SIZE
           /\ SameRegisters(k) /\ SameMemory(k) /\ SameStack(k) /\ SameCallStack(k)

\* C5 witness: a RET has run on an empty call stack at an address other than 0.
C5_Witness ==
    \E k \in Steps :
        /\ Opcode(k) = "RET"
        /\ Before(k).call_stack = <<>>
        /\ Before(k).ip # 0
        /\ After(k).result = "CallStackEmpty"

\* the value ADD, SUB and MUL are to push: (target op source) modulo 2^16
Expected(op, target, source) ==
    CASE op = "ADD" -> (target + source) % WORD
      [] op = "SUB" -> (target - source) % WORD
      [] op = "MUL" -> (target * source) % WORD

\* C6: ADD, SUB and MUL push exactly one value, (target op source) modulo
\* 2^16, above the values already on the evaluation stack, and change no
\* register and no memory cell.
C6_WrappingArithmetic ==
    \A k \in Recent(1) :
        \A op \in {"ADD", "SUB", "MUL"} :
            Ran(k, op)
            => /\ After(k).stack =
                     Append(Before(k).stack,
                            Expected(op, TargetValue(k).v, SourceValue(k).v))
               /\ After(k).result = "Continue"
               /\ SameRegisters(k) /\ SameMemory(k) /\ SameCallStack(k)

\* C6 witness: ADD of 0xFFFF and 1 has pushed one value, 0.
C6_Witness ==
    \E k \in Steps :
        /\ Ran(k, "ADD")
        /\ TargetValue(k).v = WORD - 1
        /\ SourceValue(k).v = 1
        /\ Top(After(k).stack) = 0
        /\ Len(After(k).stack) = Len(Before(k).stack) + 1

\* C6 witness for SUB: 0 - 1 has pushed 0xFFFF.
C6_WitnessSub ==
    \E k \in Steps :
        /\ Ran(k, "SUB")
        /\ TargetValue(k).v = 0
        /\ SourceValue(k).v = 1
        /\ Top(After(k).stack) = WORD - 1

\* C6 witness for MUL: a product beyond 16 bits has been pushed.
C6_WitnessMul ==
    \E k \in Steps :
        /\ Ran(k, "MUL")
        /\ TargetValue(k).v * SourceValue(k).v >= WORD
        /\ Before(k).stack # <<>>

\* C7: whatever ip is, execute_next fetches the whole word or returns
\* MemoryFault: a fetch that would run past the end of memory does not abort
\* the process, and leaves registers, memory and both stacks unchanged.
C7_FetchFaultReported ==
    \A k \in Recent(1) :
        ~load_32(Before(k).memory, Before(k).ip).ok
        => /\ After(k).result = "MemoryFault"
           /\ SameRegisters(k) /\ SameMemory(k) /\ SameStack(k) /\ SameCallStack(k)


\* LD Ra at call k and ULD Rb at call k + 1, Ra and Rb registers
LoadThenUnload(k) ==
    /\ Opcode(k) = "LD" /\ IsRegister(Instr(k).target)
    /\ Opcode(k + 1) = "ULD" /\ IsRegister(Instr(k + 1).target)

\* C10: LD Ra then ULD Rb, Ra and Rb registers, leaves in Rb the value v that
\* Ra held and the evaluation stack as it was before the LD; a HALT that
\* follows returns Stop and changes nothing.
C10_LoadUnloadRoundTrip ==
    /\ \A k \in Recent(2) :
          LoadThenUnload(k)
          => /\ After(k + 1).registers[RegisterIndex(Instr(k + 1).target)] =
                   Before(k).registers[RegisterIndex(Instr(k).target)]
             /\ After(k + 1).stack = Before(k).stack
             /\ After(k + 1).result = "Continue"
    /\ \A k \in Recent(3) :
          (LoadThenUnload(k) /\ Opcode(k + 2) = "HALT")
          => /\ After(k + 2).result = "Stop"
             /\ After(k + 2).registers = After(k + 1).registers
             /\ After(k + 2).stack = Before(k).stack

\* C10 witness: with R1 = 0x2A and R2 = 0, the program LD R1; ULD R2; HALT has
\* run: R2 = 0x2A and the last call returned Stop.
C10_Witness ==
    \E k \in Steps :
        /\ k + 2 = Len(hist)
        /\ Opcode(k) = "LD" /\ Instr(k).target = "R1"
        /\ Opcode(k + 1) = "ULD" /\ Instr(k + 1).target = "R2"
        /\ Opcode(k + 2) = "HALT"
        /\ Before(k).registers = <<42, 0, 0, 0>>
        /\ registers = <<42, 42, 0, 0>>
        /\ result = "Stop"


\* the opcode the format gives the byte b0
OpcodeOfByte(b0) == IF b0 < Len(OpcodeNames) THEN OpcodeNames[b0 + 1] ELSE "NOP"

Instructions ==
    [ op_code : {OpcodeNames[i] : i \in 1 .. Len(OpcodeNames)} \cup {"NOP"},
      target : {Operands[i] : i \in 1 .. Len(Operands)},
      source : {Operands[i] : i \in 1 .. Len(Operands)},
      target_imm : 0 .. WORD - 1,
      source_imm : 0 .. WORD - 1 ]

\* C8 as claimed: the word b0..b5 decodes to the opcode of b0 (NOP beyond
\* 0xB), target operand index b1 / 7, source operand index b1 % 7,
\* target-immediate b2 * 256 + b3 and source-immediate b4 * 256 + b5.
C8_DecodeBigEndian ==
    decoded.op_code # "None"
    => /\ decoded.op_code = OpcodeOfByte(tword[1])
       /\ OperandIndex(decoded.target) = tword[2] \div OPERAND_COUNT
       /\ OperandIndex(decoded.source) = tword[2] % OPERAND_COUNT
       /\ decoded.target_imm = tword[3] * BYTE + tword[4]
       /\ decoded.source_imm = tword[5] * BYTE + tword[6]

\* C8 as amended: the immediates are little-endian, target-immediate
\* b2 + b3 * 256 and source-immediate b4 + b5 * 256, and the target operand is
\* R1 when b1 / 7 is 7 or more; the rest as claimed, and every word decodes
\* to an instruction.
C8_DecodeLittleEndian ==
    decoded.op_code # "None"
    => /\ decoded \in Instructions
       /\ decoded.op_code = OpcodeOfByte(tword[1])
       /\ OperandIndex(decoded.target) =
             IF tword[2] \div OPERAND_COUNT < Len(Operands)
             THEN tword[2] \div OPERAND_COUNT ELSE 0
       /\ OperandIndex(decoded.source) = tword[2] % OPERAND_COUNT
       /\ decoded.target_imm = tword[3] + tword[4] * BYTE
       /\ decoded.source_imm = tword[5] + tword[6] * BYTE

\* C8 witness: a word with an unknown opcode byte, a combination byte beyond
\* 48 and immediates whose two bytes differ has been decoded.
C8_Witness ==
    /\ tword = <<255, 255, 18, 0, 0, 255>>
    /\ decoded = [ op_code |-> "NOP", target |-> "R1", source |-> "R4",
                   target_imm |-> 18, source_imm |-> 65280 ]

C11_SwiDispatch ==
    \A k \in Recent(1) :
        Opcode(k) = "SWI"
        => /\ Instr(k).imm \in {0, 1}
                => /\ After(k).result = "Continue"
                   /\ SameRegisters(k) /\ SameMemory(k)
                   /\ SameStack(k) /\ SameCallStack(k)
           /\ Instr(k).imm \notin {0, 1}
                => After(k).result = "UnimplementedInterrupt"

\* C12: MOV into CT or MA returns InvalidMoveTarget and changes no register,
\* memory cell or stack; MOV into R1..R4 or IP stores the source value there
\* and changes no other register, no memory cell and neither stack.
C12_MoveTargets ==
    \A k \in Recent(1) :
        (Opcode(k) = "MOV" /\ SourceValue(k).ok)
        => /\ Instr(k).target \in {"CT", "MA"}
                => /\ After(k).result = "InvalidMoveTarget"
                   /\ SameRegisters(k)
           /\ Instr(k).target = "IP"
                => /\ After(k).result = "Continue"
                   /\ After(k).ip = SourceValue(k).v
                   /\ SameRegisters(k)
           /\ IsRegister(Instr(k).target)
                => /\ After(k).result = "Continue"
                   /\ After(k).registers =
                         [Before(k).registers
                             EXCEPT ![RegisterIndex(Instr(k).target)] = SourceValue(k).v]
           /\ SameMemory(k) /\ SameStack(k) /\ SameCallStack(k)

\* C12 witness: a MOV has changed R1, and a later MOV into a constant has
\* been refused with the evaluation stack not empty.
C12_Witness ==
    \E j, k \in Steps :
        /\ j < k
        /\ Opcode(j) = "MOV" /\ Instr(j).target = "R1"
        /\ After(j).registers[1] # Before(j).registers[1]
        /\ Opcode(k) = "MOV" /\ Instr(k).target = "CT"
        /\ After(k).result = "InvalidMoveTarget"
        /\ Before(k).stack # <<>>


\* call k returned without an error
Succeeded(k) == After(k).result \in {"Continue", "Stop"}

\* the instruction of call k assigns ip itself
WritesIp(k) ==
    \/ Opcode(k) \in {"CALL", "RET"}
    \/ Opcode(k) \in {"MOV", "ULD"} /\ Instr(k).target = "IP"
    \/ Opcode(k) = "BZ" /\ TargetValue(k).ok /\ TargetValue(k).v = 0

\* C13: after every successful execute_next whose instruction does not itself
\* write ip, ip equals ip before the call plus 6.
C13_AdvanceBySix ==
    \A k \in Recent(1) :
        (Opcode(k) # "None" /\ Succeeded(k) /\ ~WritesIp(k))
        => After(k).ip = Before(k).ip + TWORD_SIZE

\* C14: a register R1..R4 changes only in a step that runs MOV or ULD with
\* that register as target and returns Continue; every other step leaves all
\* four registers unchanged.
C14_RegisterFrame ==
    \A k \in Recent(1) :
        \A r \in {"R1", "R2", "R3", "R4"} :
            After(k).registers[RegisterIndex(r)] # Before(k).registers[RegisterIndex(r)]
            => /\ Opcode(k) \in {"MOV", "ULD"}
               /\ Instr(k).target = r
               /\ After(k).result = "Continue"

\* C14 witness: a MOV has changed R1, an arithmetic step and a load have left
\* the registers alone, and a ULD has changed R2.
C14_Witness ==
    \E i, j, k \in Steps :
        /\ i < j /\ j < k
        /\ Opcode(i) = "MOV" /\ After(i).registers[1] # Before(i).registers[1]
        /\ Opcode(j) \in {"ADD", "SUB", "MUL", "LD"} /\ SameRegisters(j)
        /\ After(j).stack # Before(j).stack
        /\ Opcode(k) = "ULD" /\ After(k).registers[2] # Before(k).registers[2]

\* C15: CALL whose target resolves to T pushes exactly one entry, the address
\* of the instruction following the CALL, on top of the unchanged earlier
\* entries, and the next instruction is fetched at T.
C15_CallPushesReturnAddress ==
    \A k \in Recent(1) :
        (Opcode(k) = "CALL" /\ TargetValue(k).ok)
        => /\ After(k).result = "Continue"
           /\ After(k).call_stack =
                 Append(Before(k).call_stack, Before(k).ip + INSTRUCTION_SIZE)
           /\ After(k).ip = TargetValue(k).v
           /\ SameRegisters(k) /\ SameMemory(k) /\ SameStack(k)

\* C15 witness: a CALL has run with a return address already on the call
\* stack, and the instruction after it has been fetched at the call target.
C15_Witness ==
    \E k \in Steps :
        /\ k < Len(hist)
        /\ Opcode(k) = "CALL"
        /\ Before(k).call_stack # <<>>
        /\ Len(After(k).call_stack) = Len(Before(k).call_stack) + 1
        /\ Before(k + 1).ip = TargetValue(k).v
        /\ Before(k + 1).ip # Before(k).ip + INSTRUCTION_SIZE

\* C16: ULD into CT with a non-empty evaluation stack returns
\* InvalidUnloadTarget, changes no register and no memory cell, and leaves the
\* evaluation stack one element shorter.
C16_UnloadIntoConstant ==
    \A k \in Recent(1) :
        (Opcode(k) = "ULD" /\ Instr(k).target = "CT" /\ Before(k).stack # <<>>)
        => /\ After(k).result = "InvalidUnloadTarget"
           /\ SameRegisters(k) /\ SameMemory(k) /\ SameCallStack(k)
           /\ After(k).stack = Pop(Before(k).stack)
           /\ Len(After(k).stack) = Len(Before(k).stack) - 1

\* C16 witness: ULD into CT has discarded a non-zero value from the
\* evaluation stack.
C16_Witness ==
    \E k \in Steps :
        /\ Opcode(k) = "ULD" /\ Instr(k).target = "CT"
        /\ Before(k).stack # <<>>
        /\ Top(Before(k).stack) # 0
        /\ After(k).result = "InvalidUnloadTarget"


\* C17: ULD into MA with immediate a pops v and writes the high byte of v to
\* memory[a] and the low byte to memory[a + 1], changing no other cell and no
\* register; a LD from MA with the same a in the next step pushes exactly v.
C17_StoreLoadRoundTrip ==
    /\ \A k \in Recent(1) :
           (Opcode(k) = "ULD" /\ Instr(k).target = "MA" /\ Before(k).stack # <<>>
               /\ Instr(k).imm + 1 < WORD)
           => LET a == Instr(k).imm
                  v == Top(Before(k).stack)
              IN  /\ After(k).result = "Continue"
                  /\ After(k).stack = Pop(Before(k).stack)
                  /\ MemGet(After(k).memory, a) = v \div BYTE
                  /\ MemGet(After(k).memory, a + 1) = v % BYTE
                  /\ \A x \in (DOMAIN Before(k).memory \cup DOMAIN After(k).memory)
                                \ {a, a + 1} :
                         MemGet(After(k).memory, x) = MemGet(Before(k).memory, x)
                  /\ SameRegisters(k)
    /\ \A k \in Recent(2) :
           (/\ Opcode(k) = "ULD" /\ Instr(k).target = "MA" /\ Before(k).stack # <<>>
            /\ Instr(k).imm + 1 < WORD
            /\ Opcode(k + 1) = "LD" /\ Instr(k + 1).target = "MA"
            /\ Instr(k + 1).imm = Instr(k).imm)
           => /\ After(k + 1).result = "Continue"
              /\ After(k + 1).stack =
                    Append(Before(k + 1).stack, Top(Before(k).stack))

\* C18: a LD from MA or a ULD into MA at any address up to and including
\* 0xFFFE touches only cells of memory and completes without a fault.
C18_MemoryIndirectCompletes ==
    \A k \in Recent(1) :
        (/\ Opcode(k) \in {"LD", "ULD"} /\ Instr(k).target = "MA"
         /\ Instr(k).imm <= WORD - 2
         /\ Opcode(k) = "ULD" => Before(k).stack # <<>>)
        => /\ After(k).result = "Continue"
           /\ \A x \in DOMAIN After(k).memory : x < WORD

\* C19: ADD with both operands CT pushes (target immediate + source immediate)
\* mod 2^16, the two immediates being those of the 48-bit instruction at ip,
\* for every pair of immediates, pairs that differ included.
C19_PerSideImmediates ==
    \A k \in Recent(1) :
        (/\ Opcode(k) = "ADD"
         /\ Instr(k).target = "CT" /\ Instr(k).source = "CT"
         /\ ~OutOfRange(Before(k).ip, TWORD_SIZE))
        => LET instruction ==
                   Decode([i \in 1 .. TWORD_SIZE |->
                              MemGet(Before(k).memory, Before(k).ip + i - 1)])
           IN  After(k).stack =
                   Append(Before(k).stack,
                          U16(instruction.target_imm + instruction.source_imm))

\* C20: the call stack changes only by one push in a CALL or one pop in a
\* RET, the evaluation stack only by one push in ADD, SUB, MUL, DIV or LD or
\* one pop in ULD, and no step changes both.
C20_StacksIndependent ==
    \A k \in Recent(1) :
        /\ ~SameCallStack(k)
             => \/ /\ Opcode(k) = "CALL"
                   /\ After(k).call_stack # <<>>
                   /\ Pop(After(k).call_stack) = Before(k).call_stack
                \/ /\ Opcode(k) = "RET"
                   /\ Before(k).call_stack # <<>>
                   /\ After(k).call_stack = Pop(Before(k).call_stack)
        /\ ~SameStack(k)
             => \/ /\ Opcode(k) \in {"ADD", "SUB", "MUL", "DIV", "LD"}
                   /\ After(k).stack # <<>>
                   /\ Pop(After(k).stack) = Before(k).stack
                \/ /\ Opcode(k) = "ULD"
                   /\ Before(k).stack # <<>>
                   /\ After(k).stack = Pop(Before(k).stack)
        /\ SameCallStack(k) \/ SameStack(k)
        /\ Opcode(k) \in {"HALT", "NOP", "MOV", "BZ", "SWI"}
             => SameCallStack(k) /\ SameStack(k)

\* C20 witness: with a value on the evaluation stack, a CALL has pushed on the
\* call stack and the following RET has popped it, the evaluation stack
\* keeping its value through both.
C20_Witness ==
    \E k \in Steps :
        /\ k < Len(hist)
        /\ Opcode(k) = "CALL" /\ Opcode(k + 1) = "RET"
        /\ Before(k).stack # <<>>
        /\ Len(After(k).call_stack) = Len(Before(k).call_stack) + 1
        /\ After(k + 1).call_stack = Before(k).call_stack
        /\ After(k + 1).stack = Before(k).stack

====
